---- MODULE Spec2Model ----
(***************************************************************************)
(* State-machine model of amqp/transport.py: the buffered exact-size read, *)
(* the frame protocol (read_frame / write), and the connection lifecycle   *)
(* (connect / close) of _AbstractTransport, TCPTransport and SSLTransport; *)
(* and, each in a specification of its own, to_host_port,                  *)
(* _set_socket_options, having_timeout, the candidate loop of _connect and *)
(* SSLTransport._write.                                                    *)
(*                                                                         *)
(* Bytes are the integers 0..255.  Exceptions are records                  *)
(* [cls, errno, msg]; errno values are named by their errno-module names   *)
(* and "None" stands for an exception that carries no errno.  The peer and *)
(* the operating system are the environment: they decide what every        *)
(* primitive call (recv, sendall/write, shutdown, connect ...) answers.    *)
(***************************************************************************)
EXTENDS Integers, Sequences, FiniteSets

(* ------------------------------ bounds -------------------------------- *)

\* longest payload the peer puts in a frame
MaxPayload == 1

\* number of frames the peer sends over the life of the transport
MaxFrames == 2

\* largest n of a direct _read(n) call, and longest peer stream, in SpecRead
MaxRead == 3

\* number of address candidates getaddrinfo returns
MaxCandidates == 2

(* --------------------------- program constants ------------------------ *)

_UNAVAIL == {"EAGAIN", "EINTR", "ENOENT", "EWOULDBLOCK"}

EMPTY_BUFFER == << >>

\* the value of a socket handle that is not held
None == "None"

(* ------------------------------ exceptions ---------------------------- *)

NoExc == [cls |-> "none", errno |-> "None", msg |-> "", ch |-> -1]

\* socket.timeout, a subclass of socket.error carrying no errno
SocketTimeout ==
    [cls |-> "timeout", errno |-> "None", msg |-> "timed out", ch |-> -1]

\* socket.timeout(), as read_frame and having_timeout raise it themselves
BareTimeout == [cls |-> "timeout", errno |-> "None", msg |-> "", ch |-> -1]

\* socket.error with an errno
SocketError(e) == [cls |-> "error", errno |-> e, msg |-> e, ch |-> -1]

\* ssl.SSLError of a read that ran out of time
SSLTimedOut ==
    [cls |-> "SSLError", errno |-> "None",
     msg |-> "The read operation timed out", ch |-> -1]

\* ssl.SSLError of a broken record layer
SSLBroken ==
    [cls |-> "SSLError", errno |-> "None", msg |-> "bad record mac", ch |-> -1]

\* IOError('Socket closed')
SocketClosed ==
    [cls |-> "IOError", errno |-> "None", msg |-> "Socket closed", ch |-> -1]

\* UnexpectedFrame('Received 0x.. while expecting 0xce'): ch is the byte received
UnexpectedFrame(c) ==
    [cls |-> "UnexpectedFrame", errno |-> "None",
     msg |-> "Received while expecting 0xce", ch |-> c]

\* the messages that contain the words 'timed out'
TimedOutMessages == {"timed out", "The read operation timed out"}

\* what the receive primitive can raise, by transport class
RecvErrors(k) ==
    {SocketTimeout, SocketError("EINTR"), SocketError("EAGAIN"),
     SocketError("ENOENT"), SocketError("ECONNRESET")}
      \cup (IF k = "ssl" THEN {SSLTimedOut, SSLBroken} ELSE {})

\* what the write primitive can raise: sendall's errors, and for SSLTransport
\* the errors of sock.write and the IOError('Socket closed') of _write itself
WriteErrors(k) ==
    {SocketTimeout, SocketError("EAGAIN"), SocketError("EINTR"),
     SocketError("EPIPE")}
      \cup (IF k = "ssl" THEN {SocketClosed, SSLTimedOut, SSLBroken} ELSE {})

(* -------------------------------- frames ------------------------------ *)

FrameTypes == {8}

Channels == {258}

PayloadBytes == {206}

Trailers == {206, 0}

SeqsUpTo(S, m) == UNION {[1..i -> S] : i \in 0..m}

\* the frames the peer may send: a frame whose trailer is not 0xCE is corrupt
Frames ==
    [type : FrameTypes, channel : Channels,
     payload : SeqsUpTo(PayloadBytes, MaxPayload), trailer : Trailers]

\* struct.pack('>BHI', type, channel, size) + payload + trailer
Encode(f) ==
    << f.type,
       f.channel \div 256, f.channel % 256,
       (Len(f.payload) \div 16777216) % 256, (Len(f.payload) \div 65536) % 256,
       (Len(f.payload) \div 256) % 256, Len(f.payload) % 256 >>
      \o f.payload \o << f.trailer >>

RECURSIVE EncodeAll(_)
EncodeAll(fs) == IF fs = << >> THEN << >> ELSE Encode(Head(fs)) \o EncodeAll(Tail(fs))

Take(s, k) == SubSeq(s, 1, IF k < Len(s) THEN k ELSE Len(s))

Drop(s, k) == SubSeq(s, (IF k < Len(s) THEN k ELSE Len(s)) + 1, Len(s))

Min(a, b) == IF a < b THEN a ELSE b

(* -------------------------------- state ------------------------------- *)

VARIABLES
    kind,                    \* "tcp": TCPTransport, "ssl": SSLTransport
    raise_on_initial_eintr,  \* the constructor's flag
    connected,               \* self.connected
    sock,                    \* self.sock: None, "plain" or "ssl" (wrapped)
    _read_buffer,            \* self._read_buffer
    pc,                      \* where the running operation stands
    caller,                  \* who called _read: "read_frame", "_read" (a direct call)
    stage,                   \* read_frame: which read is running
    n,                       \* _read: the number of bytes asked for
    initial,                 \* _read: the initial argument
    rbuf,                    \* _read: the local rbuf
    ret,                     \* value _read returned to its caller
    exc,                     \* exception travelling to the caller
    read_frame_buffer,       \* read_frame: read_frame_buffer
    frame_header,            \* read_frame: the unpacked (frame_type, channel, size)
    payload,                 \* read_frame: payload
    outcome,                 \* how the last finished operation ended
    wire,                    \* bytes the peer has sent and recv has not yet returned
    pending,                 \* frames sent whose read_frame has not yet ended
    nsent,                   \* number of frames the peer has sent
    peer_open,               \* the peer has not closed its end
    _quick_recv,             \* self._quick_recv: the socket whose recv/read it is
    recvd,                   \* what the last recv call of the running _read answered
    expect,                  \* SpecRead: peer bytes no _read call has returned yet
    start_empty,             \* SpecRead: the running _read found the buffer empty
    was_connected,           \* self.connected when the running operation was called
    wcalls,                  \* _write invocations made by the running write()
    socket_settings,         \* self.socket_settings: TCP option -> value
    TCP_OPTS,                \* the TCP options the platform's socket module has
    sockopts,                \* the socket's TCP-level options: what getsockopt answers
    setsockopt_calls,        \* the (option, value) pairs setsockopt was called with
    sock_timeout,            \* the socket's timeout: what sock.gettimeout() answers
    timeout,                 \* having_timeout: the timeout argument
    prev,                    \* having_timeout: the local prev
    before,                  \* the socket's timeout when having_timeout was entered
    settimeouts,             \* settimeout calls made by the running having_timeout
    host,                    \* to_host_port: the host argument
    host_port,               \* to_host_port: what it returned or raised
    resolved,                \* _connect: the entries getaddrinfo returned, with each answer
    trail,                   \* _connect: the socket calls made, in order
    unsent,                  \* SSLTransport._write: the local s, the unsent rest
    arg,                     \* SSLTransport._write: the string it was called with
    accepted,                \* SSLTransport._write: the bytes sock.write has taken
    wrote                    \* SSLTransport._write: what the last sock.write answered

vars ==
    << kind, raise_on_initial_eintr, connected, sock, _read_buffer, pc, caller,
       stage, n, initial, rbuf, ret, exc, read_frame_buffer, frame_header,
       payload, outcome, wire, pending, nsent, peer_open, _quick_recv, recvd,
       expect, start_empty, was_connected, wcalls, socket_settings, TCP_OPTS,
       sockopts, setsockopt_calls, sock_timeout, timeout, prev, before,
       settimeouts, host, host_port, resolved, trail, unsent, arg, accepted,
       wrote >>

\* the state of _set_socket_options, having_timeout, to_host_port, _connect and
\* SSLTransport._write, each examined in a specification of its own
options == << socket_settings, TCP_OPTS, sockopts, setsockopt_calls >>

scope == << sock_timeout, timeout, prev, before, settimeouts >>

endpoint == << host, host_port >>

candidates == << resolved, trail >>

sslwrite == << unsent, arg, accepted, wrote >>

unit == << options, scope, endpoint, candidates, sslwrite >>

readLocals == << n, initial, rbuf, ret, exc, recvd >>

frameLocals == << stage, read_frame_buffer, frame_header, payload >>

config == << kind, raise_on_initial_eintr >>

peer == << wire, pending, nsent, peer_open >>

readHistory == << expect, start_empty >>

NoOutcome == [op |-> "none", res |-> "none", exc |-> NoExc, val |-> << >>]

Returned(op, v) == [op |-> op, res |-> "return", exc |-> NoExc, val |-> v]

Raised(op, e) == [op |-> op, res |-> "raise", exc |-> e, val |-> << >>]

NoHeader == [frame_type |-> 0, channel |-> 0, size |-> 0]

\* a number that may also be Python's None: the empty sequence is None and
\* << x >> is the number x
NoNumber == << >>

Some(x) == << x >>

\* no socket settings: None or an empty mapping
NoSettings == [o \in {} |-> 0]

\* to_host_port has not been called
NotParsed == [host |-> << >>, port |-> NoNumber, raised |-> "not called"]

\* _set_socket_options has not run; the platform has TCP_NODELAY alone
QuietOptions ==
    /\ socket_settings = NoSettings
    /\ TCP_OPTS = {"TCP_NODELAY"}
    /\ sockopts = [o \in {"TCP_NODELAY"} |-> 0]
    /\ setsockopt_calls = {}

\* no having_timeout scope is open, on a blocking socket
QuietScope ==
    /\ sock_timeout = NoNumber
    /\ timeout = NoNumber
    /\ prev = NoNumber
    /\ before = NoNumber
    /\ settimeouts = 0

QuietEndpoint ==
    /\ host = << >>
    /\ host_port = NotParsed

QuietCandidates ==
    /\ resolved = << >>
    /\ trail = << >>

QuietWrite ==
    /\ unsent = << >>
    /\ arg = << >>
    /\ accepted = << >>
    /\ wrote = "none"

Quiet ==
    /\ QuietOptions
    /\ QuietScope
    /\ QuietEndpoint
    /\ QuietCandidates
    /\ QuietWrite

\* __init__: connected is set optimistically, the buffer is empty, nothing runs
Construct(k, flag) ==
    /\ kind = k
    /\ raise_on_initial_eintr = flag
    /\ connected = TRUE
    /\ _read_buffer = EMPTY_BUFFER
    /\ pc = "idle"
    /\ caller = "none"
    /\ stage = "none"
    /\ n = 0
    /\ initial = FALSE
    /\ rbuf = << >>
    /\ ret = << >>
    /\ exc = NoExc
    /\ read_frame_buffer = << >>
    /\ frame_header = NoHeader
    /\ payload = << >>
    /\ outcome = NoOutcome
    /\ peer_open = TRUE
    /\ recvd = "none"
    /\ start_empty = TRUE
    /\ was_connected = TRUE
    /\ wcalls = 0

\* a transport of either class, just constructed: no socket yet
Init ==
    /\ \E k \in {"tcp", "ssl"}, flag \in BOOLEAN : Construct(k, flag)
    /\ sock = None
    /\ _quick_recv = None
    /\ wire = << >>
    /\ pending = << >>
    /\ nsent = 0
    /\ expect = << >>
    /\ Quiet

(* ------------------------- the exact-size read ------------------------- *)

\* a retry list that leaves EAGAIN out
_errnosWithoutEAGAIN(k) == IF k = "ssl" THEN {"ENOENT", "EINTR"} ELSE {"EINTR"}

\* the errnos _read retries on: the _errnos default argument of each class
_errnos(k) ==
    IF k = "ssl" THEN {"ENOENT", "EAGAIN", "EINTR"} ELSE {"EAGAIN", "EINTR"}

\* utils.get_errno: the errno an exception carries
get_errno(e) == e.errno

\* a _read that asks recv for all n bytes again on every turn of the loop
RecvArgWhole == n

\* the count _read passes to the receive primitive
RecvArg == n - Len(rbuf)

\* the while test of _read with local buffer buf: block in recv, or split the
\* buffer, keep the remainder and return the first num bytes
Loop(buf, num) ==
    IF Len(buf) < num
    THEN /\ pc' = "recv"
         /\ rbuf' = buf
         /\ ret' = << >>
         /\ UNCHANGED _read_buffer
    ELSE /\ pc' = "ret"
         /\ rbuf' = << >>
         /\ ret' = Take(buf, num)
         /\ _read_buffer' = Drop(buf, num)

\* a call _read(num, init): rbuf = self._read_buffer, then the loop
ReadCall(num, init) ==
    /\ n' = num
    /\ initial' = init
    /\ recvd' = "none"
    /\ exc' = NoExc
    /\ Loop(_read_buffer, num)

\* the except clause of _read: keep what was accumulated, raise again
ReadRaise(e) ==
    /\ pc' = "exc"
    /\ exc' = e
    /\ _read_buffer' = rbuf
    /\ rbuf' = << >>
    /\ ret' = << >>

\* recv returns j bytes, at most the count asked for: rbuf += s
RecvData ==
    /\ pc = "recv"
    /\ \E j \in 1..Min(RecvArg, Len(wire)) :
          /\ wire' = Drop(wire, j)
          /\ Loop(rbuf \o Take(wire, j), n)
    /\ recvd' = "data"
    /\ UNCHANGED << config, unit, connected, sock, _quick_recv, caller, n, initial, exc,
                    frameLocals, outcome, pending, nsent, peer_open, readHistory,
                    was_connected, wcalls >>

\* a _read that leaves its loop on an empty recv and returns what it holds
RecvZeroShort ==
    /\ pc = "recv"
    /\ recvd' = "zero"
    /\ pc' = "ret"
    /\ ret' = rbuf
    /\ rbuf' = << >>
    /\ _read_buffer' = EMPTY_BUFFER
    /\ wire' = << >>
    /\ peer_open' = FALSE
    /\ UNCHANGED << config, unit, connected, sock, _quick_recv, caller, n, initial, exc,
                    frameLocals, outcome, pending, nsent, readHistory,
                    was_connected, wcalls >>

\* recv returns no byte: the peer has closed; whatever it had not delivered is gone
RecvZero ==
    /\ pc = "recv"
    /\ recvd' = "zero"
    /\ ReadRaise(SocketClosed)
    /\ wire' = << >>
    /\ peer_open' = FALSE
    /\ UNCHANGED << config, unit, connected, sock, _quick_recv, caller, n, initial,
                    frameLocals, outcome, pending, nsent, readHistory,
                    was_connected, wcalls >>

\* recv raises e: a transient errno is retried (unless this is the initial read
\* and raise_on_initial_eintr is set), anything else is raised
RecvRaise ==
    /\ pc = "recv"
    /\ \E e \in RecvErrors(kind) :
          IF e.errno \in _errnos(kind) /\ ~(initial /\ raise_on_initial_eintr)
          THEN /\ recvd' = "retry"
               /\ Loop(rbuf, n)
               /\ UNCHANGED exc
          ELSE /\ recvd' = "raise"
               /\ ReadRaise(e)
    /\ UNCHANGED << config, unit, connected, sock, _quick_recv, caller, n, initial,
                    frameLocals, outcome, peer, readHistory, was_connected, wcalls >>

(* ------------------------------ read_frame ----------------------------- *)

\* an unpack that takes the channel low byte first
unpackLittleEndian(h) ==
    [frame_type |-> h[1],
     channel |-> h[3] * 256 + h[2],
     size |-> IF h[4] >= 128
              THEN 2147483647
              ELSE h[4] * 16777216 + h[5] * 65536 + h[6] * 256 + h[7]]

\* unpack('>BHI', frame_header).  The size is an unsigned 32-bit number and
\* TLC's integers are signed 32-bit ones: a size of 2^31 or more is held as
\* 2^31 - 1, which is still more bytes than the peer ever sends
unpack(h) ==
    [frame_type |-> h[1],
     channel |-> h[2] * 256 + h[3],
     size |-> IF h[4] >= 128
              THEN 2147483647
              ELSE h[4] * 16777216 + h[5] * 65536 + h[6] * 256 + h[7]]

\* the frame at the head of the peer's stream leaves pending when its
\* read_frame ends with a result or with UnexpectedFrame
Consumed == IF pending = << >> THEN << >> ELSE Tail(pending)

\* the owner does I/O on a transport that is set up and that it has not seen
\* marked disconnected
Usable == sock # None /\ _quick_recv = sock /\ connected

\* read_frame is called: read_frame_buffer = EMPTY_BUFFER, read(7, True)
ReadFrame ==
    /\ pc = "idle"
    /\ Usable
    /\ caller' = "read_frame"
    /\ stage' = "header"
    /\ read_frame_buffer' = EMPTY_BUFFER
    /\ frame_header' = NoHeader
    /\ payload' = << >>
    /\ outcome' = NoOutcome
    /\ was_connected' = connected
    /\ wcalls' = 0
    /\ ReadCall(7, TRUE)
    /\ UNCHANGED << config, unit, connected, sock, _quick_recv, peer, readHistory >>

\* the header has been read: keep it, unpack it, payload = read(size)
ReadFrameHeader ==
    /\ pc = "ret"
    /\ caller = "read_frame"
    /\ stage = "header"
    /\ read_frame_buffer' = read_frame_buffer \o ret
    /\ frame_header' = unpack(ret)
    /\ stage' = "payload"
    /\ ReadCall(unpack(ret).size, FALSE)
    /\ UNCHANGED << config, unit, connected, sock, _quick_recv, caller, payload, outcome,
                    peer, readHistory, was_connected, wcalls >>

\* the payload has been read: keep it, ch = ord(read(1))
ReadFramePayload ==
    /\ pc = "ret"
    /\ caller = "read_frame"
    /\ stage = "payload"
    /\ payload' = ret
    /\ read_frame_buffer' = read_frame_buffer \o ret
    /\ stage' = "trailer"
    /\ ReadCall(1, FALSE)
    /\ UNCHANGED << config, unit, connected, sock, _quick_recv, caller, frame_header,
                    outcome, peer, readHistory, was_connected, wcalls >>

\* a read_frame that does not look at the trailer byte
FrameResultUnchecked(c) ==
    Returned("read_frame",
             << frame_header.frame_type, frame_header.channel, payload >>)

\* what read_frame does with the trailer byte ch
FrameResult(c) ==
    IF c = 206
    THEN Returned("read_frame",
                  << frame_header.frame_type, frame_header.channel, payload >>)
    ELSE Raised("read_frame", UnexpectedFrame(c))

\* the trailer has been read: return the frame, or raise UnexpectedFrame
ReadFrameTrailer ==
    /\ pc = "ret"
    /\ caller = "read_frame"
    /\ stage = "trailer"
    /\ outcome' = FrameResult(ret[1])
    /\ pc' = "idle"
    /\ caller' = "none"
    /\ stage' = "none"
    /\ read_frame_buffer' = << >>
    /\ frame_header' = NoHeader
    /\ payload' = << >>
    /\ ret' = << >>
    /\ n' = 0
    /\ initial' = FALSE
    /\ recvd' = "none"
    /\ pending' = Consumed
    /\ UNCHANGED << config, unit, connected, sock, _quick_recv, _read_buffer, rbuf, exc,
                    wire, nsent, peer_open, readHistory, was_connected, wcalls >>

\* a read_frame whose timeout clause does not put read_frame_buffer back
ReadFrameHandlerNoRestore(e) ==
    IF e.cls = "timeout"
    THEN [raise |-> e, buffer |-> _read_buffer, connected |-> connected]
    ELSE IF e.cls = "SSLError" /\ e.msg \in TimedOutMessages
    THEN [raise |-> BareTimeout, buffer |-> _read_buffer, connected |-> connected]
    ELSE IF get_errno(e) \notin _UNAVAIL
    THEN [raise |-> e, buffer |-> _read_buffer, connected |-> FALSE]
    ELSE [raise |-> e, buffer |-> _read_buffer, connected |-> connected]

\* a read_frame whose timeout clause marks the transport disconnected, as the
\* general clause does for an error without errno
ReadFrameHandlerTimeoutFatal(e) ==
    IF e.cls = "timeout"
    THEN [raise |-> e, buffer |-> read_frame_buffer \o _read_buffer,
          connected |-> FALSE]
    ELSE IF e.cls = "SSLError" /\ e.msg \in TimedOutMessages
    THEN [raise |-> BareTimeout, buffer |-> _read_buffer, connected |-> connected]
    ELSE IF get_errno(e) \notin _UNAVAIL
    THEN [raise |-> e, buffer |-> _read_buffer, connected |-> FALSE]
    ELSE [raise |-> e, buffer |-> _read_buffer, connected |-> connected]

\* a read_frame that marks the transport disconnected on every error that is
\* no timeout, transient ones included
ReadFrameHandlerNoUnavail(e) ==
    IF e.cls = "timeout"
    THEN [raise |-> e, buffer |-> read_frame_buffer \o _read_buffer,
          connected |-> connected]
    ELSE IF e.cls = "SSLError" /\ e.msg \in TimedOutMessages
    THEN [raise |-> BareTimeout, buffer |-> _read_buffer, connected |-> connected]
    ELSE [raise |-> e, buffer |-> _read_buffer, connected |-> FALSE]

\* the except clauses of read_frame, for exception e raised by a read:
\* what reaches the caller, the retained buffer and the connected flag
ReadFrameHandler(e) ==
    IF e.cls = "timeout"
    THEN [raise |-> e, buffer |-> read_frame_buffer \o _read_buffer,
          connected |-> connected]
    ELSE IF e.cls = "SSLError" /\ e.msg \in TimedOutMessages
    THEN [raise |-> BareTimeout, buffer |-> _read_buffer, connected |-> connected]
    ELSE IF get_errno(e) \notin _UNAVAIL
    THEN [raise |-> e, buffer |-> _read_buffer, connected |-> FALSE]
    ELSE [raise |-> e, buffer |-> _read_buffer, connected |-> connected]

\* a read raised inside read_frame: the except clauses run, the error propagates
ReadFrameExcept ==
    /\ pc = "exc"
    /\ caller = "read_frame"
    /\ LET h == ReadFrameHandler(exc)
       IN  /\ outcome' = Raised("read_frame", h.raise)
           /\ _read_buffer' = h.buffer
           /\ connected' = h.connected
    /\ pc' = "idle"
    /\ caller' = "none"
    /\ stage' = "none"
    /\ read_frame_buffer' = << >>
    /\ frame_header' = NoHeader
    /\ payload' = << >>
    /\ exc' = NoExc
    /\ n' = 0
    /\ initial' = FALSE
    /\ recvd' = "none"
    /\ UNCHANGED << config, unit, sock, _quick_recv, rbuf, ret, peer, readHistory,
                    was_connected, wcalls >>

\* the peer sends one more frame once the previous bytes have been received
PeerSend ==
    /\ peer_open
    /\ sock # None
    /\ wire = << >>
    /\ nsent < MaxFrames
    /\ \E f \in Frames :
          /\ wire' = Encode(f)
          /\ pending' = Append(pending, f)
    /\ nsent' = nsent + 1
    /\ UNCHANGED << config, unit, connected, sock, _quick_recv, _read_buffer, pc, caller,
                    readLocals, frameLocals, outcome, peer_open, readHistory,
                    was_connected, wcalls >>

(* --------------------------------- write ------------------------------- *)

\* write(s) is called: self._write(s) is invoked
Write ==
    /\ pc = "idle"
    /\ Usable
    /\ pc' = "write"
    /\ caller' = "write"
    /\ outcome' = NoOutcome
    /\ was_connected' = connected
    /\ wcalls' = 1
    /\ UNCHANGED << config, unit, connected, sock, _quick_recv, _read_buffer, readLocals,
                    frameLocals, peer, readHistory >>

\* _write returns: write returns nothing
WriteDone ==
    /\ pc = "write"
    /\ pc' = "idle"
    /\ caller' = "none"
    /\ outcome' = Returned("write", << >>)
    /\ UNCHANGED << config, unit, connected, sock, _quick_recv, _read_buffer, readLocals,
                    frameLocals, peer, readHistory, was_connected, wcalls >>

\* a write without the clause that lets a timeout pass
WriteHandlerNoTimeoutClause(e) ==
    IF get_errno(e) \notin _UNAVAIL THEN FALSE ELSE connected

\* the except clauses of write, for exception e: the connected flag afterwards
WriteHandler(e) ==
    IF e.cls = "timeout"
    THEN connected
    ELSE IF get_errno(e) \notin _UNAVAIL THEN FALSE ELSE connected

\* _write raises: the except clauses run and the error propagates
WriteRaise ==
    /\ pc = "write"
    /\ \E e \in WriteErrors(kind) :
          /\ connected' = WriteHandler(e)
          /\ outcome' = Raised("write", e)
    /\ pc' = "idle"
    /\ caller' = "none"
    /\ UNCHANGED << config, unit, sock, _quick_recv, _read_buffer, readLocals,
                    frameLocals, peer, readHistory, was_connected, wcalls >>

(* --------------------------------- close ------------------------------- *)

\* what the shutdown primitives may answer to one close()
CloseAnswers == {"ok", "unwrap_fails", "shutdown_fails", "close_fails"}

\* the error of a failed unwrap(), shutdown() or close() of the socket
CloseError(ans) ==
    IF ans = "unwrap_fails" THEN SSLBroken
    ELSE IF ans = "shutdown_fails" THEN SocketError("ENOTCONN")
    ELSE SocketError("EIO")

\* _shutdown_transport on handle s: the handle afterwards, and whether it raised.
\* TCPTransport inherits the empty hook; SSLTransport unwraps a wrapped socket
\* and returns at once when the handle has no unwrap attribute
_shutdown_transport(k, s, ans) ==
    IF k = "ssl" /\ s = "ssl"
    THEN IF ans = "unwrap_fails"
         THEN [sock |-> s, raised |-> TRUE]
         ELSE [sock |-> "plain", raised |-> FALSE]
    ELSE [sock |-> s, raised |-> FALSE]

\* close() when the primitives answer ans: the handle, the flag, the error and
\* the calls made on the way
close(ans) ==
    IF sock # None
    THEN LET hook == _shutdown_transport(kind, sock, ans)
         IN  IF hook.raised
             THEN [sock |-> hook.sock, connected |-> connected,
                   raise |-> CloseError(ans),
                   calls |-> << "_shutdown_transport" >>]
             ELSE IF ans = "shutdown_fails"
             THEN [sock |-> hook.sock, connected |-> connected,
                   raise |-> CloseError(ans),
                   calls |-> << "_shutdown_transport", "shutdown" >>]
             ELSE IF ans = "close_fails"
             THEN [sock |-> hook.sock, connected |-> connected,
                   raise |-> CloseError(ans),
                   calls |-> << "_shutdown_transport", "shutdown", "close" >>]
             ELSE [sock |-> None, connected |-> FALSE, raise |-> NoExc,
                   calls |-> << "_shutdown_transport", "shutdown", "close" >>]
    ELSE [sock |-> None, connected |-> FALSE, raise |-> NoExc, calls |-> << >>]

\* close() is called; with no socket held no primitive is there to fail
Close ==
    /\ pc = "idle"
    /\ \E ans \in CloseAnswers :
          /\ ans = "unwrap_fails" => (kind = "ssl" /\ sock = "ssl")
          /\ ans # "ok" => sock # None
          /\ LET c == close(ans)
             IN  /\ sock' = c.sock
                 /\ connected' = c.connected
                 /\ outcome' = [op |-> "close",
                                 res |-> IF c.raise = NoExc THEN "return" ELSE "raise",
                                 exc |-> c.raise, val |-> c.calls]
                 /\ IF sock # None /\ c.sock = None
                    THEN /\ wire' = << >>
                         /\ pending' = << >>
                         /\ peer_open' = FALSE
                         /\ _quick_recv' = IF _quick_recv = None THEN None ELSE "closed"
                    ELSE UNCHANGED << wire, pending, peer_open, _quick_recv >>
    /\ was_connected' = connected
    /\ wcalls' = 0
    /\ UNCHANGED << config, unit, _read_buffer, pc, caller, readLocals, frameLocals,
                    nsent, readHistory >>

(* -------------------------------- connect ------------------------------ *)

\* what one address candidate may answer: the connection is made, sock.connect
\* raises socket.error (ECONNREFUSED, ETIMEDOUT), or socket.socket itself raises
\* socket.error because the address family is not supported (EAFNOSUPPORT)
CandidateAnswers == {"ok", "ECONNREFUSED", "ETIMEDOUT", "EAFNOSUPPORT"}

\* the candidate lists getaddrinfo may return, each with its answer
Entries == UNION {[1..i -> CandidateAnswers] : i \in 1..MaxCandidates}

\* the AttributeError of self.sock.close() when self.sock is None
AttributeError ==
    [cls |-> "AttributeError", errno |-> "None",
     msg |-> "'NoneType' object has no attribute 'close'", ch |-> -1]

\* _connect from candidate i on, called with no socket held: stop at the first
\* candidate that connects; a candidate whose connect fails has its socket
\* closed and dropped, and the error of the last one is raised; when
\* socket.socket fails self.sock is still None and the except clause's
\* self.sock.close() raises AttributeError, which ends the loop.  trail lists
\* the calls made: socket.socket, sock.connect and sock.close, each with the
\* index of its candidate
RECURSIVE _connect(_, _)
_connect(entries, i) ==
    IF entries[i] = "ok"
    THEN [sock |-> "plain", raise |-> NoExc,
          trail |-> << << "socket", i >>, << "connect", i >> >>]
    ELSE IF entries[i] = "EAFNOSUPPORT"
    THEN [sock |-> None, raise |-> AttributeError,
          trail |-> << << "socket", i >> >>]
    ELSE IF i >= Len(entries)
    THEN [sock |-> None, raise |-> SocketError(entries[i]),
          trail |-> << << "socket", i >>, << "connect", i >>, << "close", i >> >>]
    ELSE LET more == _connect(entries, i + 1)
         IN  [sock |-> more.sock, raise |-> more.raise,
              trail |-> << << "socket", i >>, << "connect", i >>,
                           << "close", i >> >> \o more.trail]

\* where _init_socket may fail, and with what
InitFaults(k) ==
    {[at |-> "none", exc |-> NoExc],
     [at |-> "setsockopt", exc |-> SocketError("EBADF")],
     [at |-> "header", exc |-> SocketError("EPIPE")],
     [at |-> "header", exc |-> SocketError("EAGAIN")]}
      \cup (IF k = "ssl"
            THEN {[at |-> "wrap", exc |-> SSLBroken],
                  [at |-> "handshake", exc |-> SSLBroken]}
            ELSE {})

\* _setup_transport on a connected plain socket: SSLTransport wraps it, shakes
\* hands and binds _quick_recv; TCPTransport empties the buffer and binds
\* _quick_recv (and _write) to the socket
_setup_transport(k, f) ==
    IF k = "ssl"
    THEN IF f.at = "wrap"
         THEN [sock |-> "plain", _quick_recv |-> _quick_recv,
               buffer |-> _read_buffer]
         ELSE IF f.at = "handshake"
         THEN [sock |-> "ssl", _quick_recv |-> _quick_recv,
               buffer |-> _read_buffer]
         ELSE [sock |-> "ssl", _quick_recv |-> "ssl", buffer |-> _read_buffer]
    ELSE [sock |-> "plain", _quick_recv |-> "plain", buffer |-> EMPTY_BUFFER]

\* an _init_socket that marks the transport connected when it succeeds
_init_socketMarksConnected(k, f) ==
    LET setup == IF f.at = "setsockopt"
                 THEN [sock |-> "plain", _quick_recv |-> _quick_recv,
                       buffer |-> _read_buffer]
                 ELSE _setup_transport(k, f)
    IN  [sock |-> setup.sock, _quick_recv |-> setup._quick_recv,
         buffer |-> setup.buffer,
         connected |-> IF f.at = "none" THEN TRUE
                       ELSE IF get_errno(f.exc) \notin _UNAVAIL
                       THEN FALSE ELSE connected,
         raise |-> f.exc]

\* _init_socket when fault f strikes: the handle, _quick_recv, the buffer, the
\* flag and the error raised
_init_socket(k, f) ==
    LET setup == IF f.at = "setsockopt"
                 THEN [sock |-> "plain", _quick_recv |-> _quick_recv,
                       buffer |-> _read_buffer]
                 ELSE _setup_transport(k, f)
    IN  [sock |-> setup.sock, _quick_recv |-> setup._quick_recv,
         buffer |-> setup.buffer,
         connected |-> IF f.at # "none" /\ get_errno(f.exc) \notin _UNAVAIL
                       THEN FALSE ELSE connected,
         raise |-> f.exc]

\* connect(), called with no socket held, when getaddrinfo returns entries and
\* fault f strikes _init_socket: _connect, then _init_socket
ConnectWith(entries, f) ==
    /\ LET c == _connect(entries, 1)
           i == _init_socket(kind, f)
       IN  IF c.raise # NoExc
           THEN /\ f.at = "none"
                /\ outcome' = Raised("connect", c.raise)
                /\ UNCHANGED << sock, _quick_recv, _read_buffer, connected,
                                peer_open >>
           ELSE /\ sock' = i.sock
                /\ _quick_recv' = i._quick_recv
                /\ _read_buffer' = i.buffer
                /\ connected' = i.connected
                /\ peer_open' = TRUE
                /\ outcome' = IF i.raise = NoExc
                              THEN Returned("connect", << >>)
                              ELSE Raised("connect", i.raise)
    /\ was_connected' = connected
    /\ wcalls' = 0
    /\ UNCHANGED << config, pc, caller, readLocals, frameLocals, wire, pending,
                    nsent, readHistory, options, scope, endpoint, sslwrite >>

\* connect()
Connect ==
    /\ pc = "idle"
    /\ sock = None
    /\ \E entries \in Entries, f \in InitFaults(kind) : ConnectWith(entries, f)
    /\ UNCHANGED candidates

\* connect(), with the candidates it was given and the calls _connect made on
\* record
ConnectCandidates ==
    /\ pc = "idle"
    /\ sock = None
    /\ \E entries \in Entries, f \in InitFaults(kind) :
          /\ ConnectWith(entries, f)
          /\ resolved' = entries
          /\ trail' = _connect(entries, 1).trail

NextConnect ==
    \/ ConnectCandidates
    \/ Close

SpecConnect == Init /\ [][NextConnect]_vars

(* ------------------------- _read called on its own --------------------- *)

ReadBytes == {1, 2}

\* a transport of either class after a successful connect(), facing a peer
\* that will send the bytes of wire
InitRead ==
    /\ \E k \in {"tcp", "ssl"}, flag \in BOOLEAN :
          /\ Construct(k, flag)
          /\ sock = _setup_transport(k, [at |-> "none", exc |-> NoExc]).sock
          /\ _quick_recv = sock
    /\ wire \in SeqsUpTo(ReadBytes, MaxRead)
    /\ pending = << >>
    /\ nsent = 0
    /\ expect = wire
    /\ Quiet

\* _read(num, init) is called
Read ==
    /\ pc = "idle"
    /\ Usable
    /\ caller' = "_read"
    /\ start_empty' = (_read_buffer = EMPTY_BUFFER)
    /\ outcome' = NoOutcome
    /\ \E num \in 0..MaxRead, init \in BOOLEAN : ReadCall(num, init)
    /\ UNCHANGED << config, unit, connected, sock, _quick_recv, frameLocals, peer, expect,
                    was_connected, wcalls >>

\* _read hands its result to the caller
ReadReturn ==
    /\ pc = "ret"
    /\ caller = "_read"
    /\ pc' = "idle"
    /\ caller' = "none"
    /\ outcome' = Returned("_read", ret)
    /\ expect' = Drop(expect, Len(ret))
    /\ UNCHANGED << config, unit, connected, sock, _quick_recv, _read_buffer, readLocals,
                    frameLocals, peer, start_empty, was_connected, wcalls >>

\* _read's error reaches the caller
ReadFail ==
    /\ pc = "exc"
    /\ caller = "_read"
    /\ pc' = "idle"
    /\ caller' = "none"
    /\ outcome' = Raised("_read", exc)
    /\ UNCHANGED << config, unit, connected, sock, _quick_recv, _read_buffer, readLocals,
                    frameLocals, peer, readHistory, was_connected, wcalls >>

NextRead ==
    \/ Read
    \/ RecvData
    \/ RecvZero
    \/ RecvRaise
    \/ ReadReturn
    \/ ReadFail

SpecRead == InitRead /\ [][NextRead]_vars

(* ----------------------- one frame, parsed from the wire ---------------- *)

\* frame types, channels and payload bytes at the ends and inside of their ranges
WideTypes == {0, 8, 255}

WideChannels == {0, 258, 65535}

WideBytes == {0, 206, 255}

\* the well-formed frames over those values
WideFrames ==
    [type : WideTypes, channel : WideChannels,
     payload : SeqsUpTo(WideBytes, MaxPayload), trailer : {206}]

\* a transport after a successful connect(); the peer has sent one frame and
\* possibly one byte after it
InitFrame ==
    /\ \E k \in {"tcp", "ssl"} :
          /\ Construct(k, FALSE)
          /\ sock = _setup_transport(k, [at |-> "none", exc |-> NoExc]).sock
          /\ _quick_recv = sock
    /\ \E f \in WideFrames, after \in SeqsUpTo({8}, 1) :
          /\ wire = Encode(f) \o after
          /\ pending = << f >>
    /\ nsent = 1
    /\ expect = wire
    /\ Quiet

NextFrame ==
    \/ ReadFrame
    \/ RecvData
    \/ ReadFrameHeader
    \/ ReadFramePayload
    \/ ReadFrameTrailer

SpecFrame == InitFrame /\ [][NextFrame]_vars

(* --------------------------- _set_socket_options ------------------------ *)

\* largest value of a TCP option
MaxOptVal == 2

OptVals == 0..MaxOptVal

\* the option names the module knows of (three of KNOWN_TCP_OPTS)
KNOWN_TCP_OPTS == {"TCP_NODELAY", "TCP_KEEPIDLE", "TCP_KEEPCNT"}

\* the mappings of some options to values
Mappings(opts, vals) == UNION {[d -> vals] : d \in SUBSET opts}

\* dict.setdefault(k, v)
setdefault(d, k, v) ==
    IF k \in DOMAIN d
    THEN d
    ELSE [o \in DOMAIN d \cup {k} |-> IF o = k THEN v ELSE d[o]]

\* dict.update(e)
update(d, e) ==
    [o \in DOMAIN d \cup DOMAIN e |-> IF o \in DOMAIN e THEN e[o] ELSE d[o]]

\* items(d)
items(d) == {<< o, d[o] >> : o \in DOMAIN d}

\* _get_tcp_socket_defaults: the current value of every option of TCP_OPTS
_get_tcp_socket_defaults(opts) == [opt \in TCP_OPTS |-> opts[opt]]

\* _set_socket_options: the setsockopt(SOL_TCP, opt, val) calls it makes
_set_socket_options(settings) ==
    IF DOMAIN settings = {}
    THEN {<< "TCP_NODELAY", 1 >>}
    ELSE items(update(setdefault(_get_tcp_socket_defaults(sockopts),
                                 "TCP_NODELAY", 1),
                      settings))

\* the socket's options after the calls of the set calls
setsockopt(opts, calls) ==
    [o \in DOMAIN opts |->
        IF \E c \in calls : c[1] = o
        THEN (CHOOSE c \in calls : c[1] = o)[2]
        ELSE opts[o]]

\* _init_socket reaches self._set_socket_options(socket_settings)
SetSocketOptions ==
    /\ pc = "idle"
    /\ sock # None
    /\ setsockopt_calls = {}
    /\ setsockopt_calls' = _set_socket_options(socket_settings)
    /\ sockopts' = setsockopt(sockopts, _set_socket_options(socket_settings))
    /\ outcome' = Returned("_set_socket_options", << >>)
    /\ UNCHANGED << config, connected, sock, _quick_recv, _read_buffer, pc, caller,
                    readLocals, frameLocals, peer, readHistory, was_connected,
                    wcalls, socket_settings, TCP_OPTS, scope, endpoint,
                    candidates, sslwrite >>

\* a freshly connected plain socket, on a platform whose socket module has
\* TCP_NODELAY and any of the other options, with any option values and any
\* socket settings given to the constructor
InitOpts ==
    /\ \E k \in {"tcp", "ssl"} : Construct(k, FALSE)
    /\ sock = "plain"
    /\ _quick_recv = None
    /\ wire = << >>
    /\ pending = << >>
    /\ nsent = 0
    /\ expect = << >>
    /\ TCP_OPTS \in {o \in SUBSET KNOWN_TCP_OPTS : "TCP_NODELAY" \in o}
    /\ sockopts \in [KNOWN_TCP_OPTS -> OptVals]
    /\ socket_settings \in Mappings(KNOWN_TCP_OPTS, OptVals)
    /\ setsockopt_calls = {}
    /\ QuietScope
    /\ QuietEndpoint
    /\ QuietCandidates
    /\ QuietWrite

NextOpts == SetSocketOptions

SpecOpts == InitOpts /\ [][NextOpts]_vars

(* ------------------------------ having_timeout -------------------------- *)

\* largest socket timeout, in seconds
MaxTimeout == 2

\* the timeouts a socket can have and having_timeout can be given: None or a number
Timeouts == {NoNumber} \cup {Some(t) : t \in 0..MaxTimeout}

\* ssl.SSLError of a non-blocking operation that could not complete
SSLNotComplete ==
    [cls |-> "SSLError", errno |-> "None",
     msg |-> "The operation did not complete (read)", ch |-> -1]

\* an error that is no I/O error
ValueError == [cls |-> "ValueError", errno |-> "None", msg |-> "", ch |-> -1]

\* the messages that contain the words 'The operation did not complete'
NotCompleteMessages == {"The operation did not complete (read)"}

\* what the body of a having_timeout scope can raise
BodyErrors(k) ==
    {SocketTimeout, SocketError("EPIPE"), ValueError}
      \cup (IF k = "ssl" THEN {SSLTimedOut, SSLNotComplete, SSLBroken} ELSE {})

\* the except clause of having_timeout: what leaves the scope when the body
\* raised e.  With timeout None the body runs outside the try statement
having_timeout_except(t, e) ==
    IF t = NoNumber THEN e
    ELSE IF e.cls = "SSLError" /\ e.msg \in TimedOutMessages THEN BareTimeout
    ELSE IF e.cls = "SSLError" /\ e.msg \in NotCompleteMessages THEN BareTimeout
    ELSE e

\* a finally clause that leaves the socket's timeout as the body left it
having_timeout_keeps(t, p, now) == [timeout |-> now, calls |-> 0]

\* the finally clause of having_timeout: the socket's timeout afterwards and the
\* settimeout calls made, when the argument was t, prev is p and the socket's
\* timeout is now
having_timeout_finally(t, p, now) ==
    IF t = NoNumber THEN [timeout |-> now, calls |-> 0]
    ELSE IF t # p THEN [timeout |-> p, calls |-> 1]
    ELSE [timeout |-> now, calls |-> 0]

\* with self.having_timeout(t): the scope is entered
HavingTimeout ==
    /\ pc = "idle"
    /\ sock # None
    /\ \E t \in Timeouts :
          /\ timeout' = t
          /\ IF t = NoNumber
             THEN /\ prev' = NoNumber
                  /\ settimeouts' = 0
                  /\ UNCHANGED sock_timeout
             ELSE /\ prev' = sock_timeout
                  /\ IF sock_timeout # t
                     THEN sock_timeout' = t /\ settimeouts' = 1
                     ELSE UNCHANGED sock_timeout /\ settimeouts' = 0
    /\ before' = sock_timeout
    /\ pc' = "body"
    /\ caller' = "having_timeout"
    /\ outcome' = NoOutcome
    /\ UNCHANGED << config, connected, sock, _quick_recv, _read_buffer, readLocals,
                    frameLocals, peer, readHistory, was_connected, wcalls,
                    options, endpoint, candidates, sslwrite >>

\* the end of a scope: the finally clause runs, the scope's locals are gone
ScopeExit(result) ==
    /\ LET f == having_timeout_finally(timeout, prev, sock_timeout)
       IN  /\ sock_timeout' = f.timeout
           /\ settimeouts' = settimeouts + f.calls
    /\ outcome' = result
    /\ pc' = "idle"
    /\ caller' = "none"
    /\ UNCHANGED << config, connected, sock, _quick_recv, _read_buffer, readLocals,
                    frameLocals, peer, readHistory, was_connected, wcalls,
                    options, endpoint, candidates, sslwrite, timeout, prev,
                    before >>

\* the body completes
BodyReturns ==
    /\ pc = "body"
    /\ ScopeExit(Returned("having_timeout", << >>))

\* the body raises
BodyRaises ==
    /\ pc = "body"
    /\ \E e \in BodyErrors(kind) :
          ScopeExit(Raised("having_timeout", having_timeout_except(timeout, e)))

\* a connected transport whose socket has any timeout
InitTimeout ==
    /\ \E k \in {"tcp", "ssl"} :
          /\ Construct(k, FALSE)
          /\ sock = _setup_transport(k, [at |-> "none", exc |-> NoExc]).sock
          /\ _quick_recv = sock
    /\ wire = << >>
    /\ pending = << >>
    /\ nsent = 0
    /\ expect = << >>
    /\ sock_timeout \in Timeouts
    /\ timeout = NoNumber
    /\ prev = NoNumber
    /\ before = sock_timeout
    /\ settimeouts = 0
    /\ QuietOptions
    /\ QuietEndpoint
    /\ QuietCandidates
    /\ QuietWrite

NextTimeout ==
    \/ HavingTimeout
    \/ BodyReturns
    \/ BodyRaises

SpecTimeout == InitTimeout /\ [][NextTimeout]_vars

(* -------------------------------- to_host_port -------------------------- *)

\* longest host string
MaxHost == 5

AMQP_PORT == 5672

\* a string is the sequence of its characters; the characters host strings are
\* made of here: brackets, colon, a hexadecimal letter, another letter, digits
Chars == {"[", "]", ":", "f", "h", "1", "2"}

Digits == {"0", "1", "2", "3", "4", "5", "6", "7", "8", "9"}

\* the character class [\.0-9a-f:] of IPV6_LITERAL
LiteralChars == Digits \cup {".", ":", "a", "b", "c", "d", "e", "f"}

\* the index of the first c in str, 0 when there is none
Find(str, c) ==
    IF \E i \in 1..Len(str) : str[i] = c
    THEN CHOOSE i \in 1..Len(str) : str[i] = c /\ \A j \in 1..(i - 1) : str[j] # c
    ELSE 0

\* the index of the first colon
FirstColon(str) == Find(str, ":")

\* the index of the last colon in str, 0 when there is none: where
\* rsplit(':', 1) splits
LastColon(str) ==
    IF \E i \in 1..Len(str) : str[i] = ":"
    THEN CHOOSE i \in 1..Len(str) :
            str[i] = ":" /\ \A j \in (i + 1)..Len(str) : str[j] # ":"
    ELSE 0

\* the end of the longest run of digits of str that starts at i (i - 1 when
\* str[i] is no digit): what the greedy \d+ takes
DigitsEnd(str, i) ==
    CHOOSE e \in (i - 1)..Len(str) :
        /\ \A j \in i..e : str[j] \in Digits
        /\ e < Len(str) => str[e + 1] \notin Digits

DigitValue(c) == CHOOSE v \in 0..9 : << "0", "1", "2", "3", "4", "5", "6", "7", "8", "9" >>[v + 1] = c

\* strings of decimal digits, which int() accepts
IsInt(str) == str # << >> /\ \A i \in 1..Len(str) : str[i] \in Digits

\* int(str) of a string of decimal digits
RECURSIVE int(_)
int(str) ==
    IF str = << >> THEN 0
    ELSE int(SubSeq(str, 1, Len(str) - 1)) * 10 + DigitValue(str[Len(str)])

\* IPV6_LITERAL.match(host): whether the pattern matches at the start of str,
\* and its two groups.  The class has no ']', so group 1 runs from the second
\* character up to the first ']'
IPV6_LITERAL(str) ==
    LET bracket == Find(str, "]")
        matched == /\ str # << >>
                   /\ str[1] = "["
                   /\ bracket >= 3
                   /\ \A i \in 2..(bracket - 1) : str[i] \in LiteralChars
        ported == /\ matched
                  /\ Len(str) >= bracket + 2
                  /\ str[bracket + 1] = ":"
                  /\ str[bracket + 2] \in Digits
    IN  [matched |-> matched,
         group1 |-> IF matched THEN SubSeq(str, 2, bracket - 1) ELSE << >>,
         group2 |-> IF ported
                    THEN SubSeq(str, bracket + 2, DigitsEnd(str, bracket + 2))
                    ELSE << >>]

\* to_host_port(host, default): the pair returned, or the ValueError of int()
to_host_port(str, default) ==
    LET m == IPV6_LITERAL(str)
        colon == LastColon(str)
    IN  IF m.matched
        THEN [host |-> m.group1,
              port |-> IF m.group2 # << >> THEN Some(int(m.group2)) ELSE NoNumber,
              raised |-> "no"]
        ELSE IF colon > 0
        THEN IF IsInt(SubSeq(str, colon + 1, Len(str)))
             THEN [host |-> SubSeq(str, 1, colon - 1),
                   port |-> Some(int(SubSeq(str, colon + 1, Len(str)))),
                   raised |-> "no"]
             ELSE [host |-> << >>, port |-> NoNumber, raised |-> "ValueError"]
        ELSE [host |-> str, port |-> NoNumber, raised |-> "no"]

\* to_host_port(host) or to_host_port(host, default) is called
ToHostPort ==
    /\ pc = "idle"
    /\ host_port = NotParsed
    /\ \E default \in {Some(AMQP_PORT), Some(1), NoNumber} :
          host_port' = to_host_port(host, default)
    /\ UNCHANGED << config, connected, sock, _quick_recv, _read_buffer, pc, caller,
                    readLocals, frameLocals, outcome, peer, readHistory,
                    was_connected, wcalls, options, scope, candidates, sslwrite,
                    host >>

\* any host string, before the constructor parses it
InitHostPort ==
    /\ Construct("tcp", FALSE)
    /\ sock = None
    /\ _quick_recv = None
    /\ wire = << >>
    /\ pending = << >>
    /\ nsent = 0
    /\ expect = << >>
    /\ host \in SeqsUpTo(Chars, MaxHost)
    /\ host_port = NotParsed
    /\ QuietOptions
    /\ QuietScope
    /\ QuietCandidates
    /\ QuietWrite

NextHostPort == ToHostPort

SpecHostPort == InitHostPort /\ [][NextHostPort]_vars

(* ---------------------------- SSLTransport._write ----------------------- *)

\* longest string given to _write
MaxWrite == 3

WriteBytes == {1, 2}

\* what sock.write raises that _write lets through
SSLWriteErrors == {SocketTimeout, SocketError("EPIPE"), SSLBroken}

\* an s = s[n + 1:]
RestSkipsOne(str, k) == Drop(str, k + 1)

\* s = s[n:]
Rest(str, k) == Drop(str, k)

\* the while test of _write on the rest str: write again, or return
WriteLoop(str) ==
    IF str # << >>
    THEN /\ pc' = "sslwrite"
         /\ caller' = "_write"
         /\ outcome' = NoOutcome
    ELSE /\ pc' = "idle"
         /\ caller' = "none"
         /\ outcome' = Returned("_write", << >>)

\* _write(s) is called on a wrapped socket
SSLWrite ==
    /\ pc = "idle"
    /\ kind = "ssl"
    /\ Usable
    /\ \E str \in SeqsUpTo(WriteBytes, MaxWrite) :
          /\ arg' = str
          /\ unsent' = str
          /\ WriteLoop(str)
    /\ accepted' = << >>
    /\ wrote' = "none"
    /\ UNCHANGED << config, connected, sock, _quick_recv, _read_buffer, readLocals,
                    frameLocals, peer, readHistory, was_connected, wcalls,
                    options, scope, endpoint, candidates >>

\* sock.write(s) takes the first k bytes of s and returns k
SSLWriteSome ==
    /\ pc = "sslwrite"
    /\ \E k \in 1..Len(unsent) :
          /\ accepted' = accepted \o Take(unsent, k)
          /\ unsent' = Rest(unsent, k)
          /\ WriteLoop(Rest(unsent, k))
    /\ wrote' = "some"
    /\ UNCHANGED << config, connected, sock, _quick_recv, _read_buffer, readLocals,
                    frameLocals, peer, readHistory, was_connected, wcalls,
                    options, scope, endpoint, candidates, arg >>

\* sock.write(s) returns 0, or raises ValueError or AttributeError, which makes
\* n = 0: IOError('Socket closed') is raised
SSLWriteNone ==
    /\ pc = "sslwrite"
    /\ wrote' \in {"zero", "ValueError", "AttributeError"}
    /\ pc' = "idle"
    /\ caller' = "none"
    /\ outcome' = Raised("_write", SocketClosed)
    /\ UNCHANGED << config, connected, sock, _quick_recv, _read_buffer, readLocals,
                    frameLocals, peer, readHistory, was_connected, wcalls,
                    options, scope, endpoint, candidates, unsent, arg, accepted >>

\* sock.write(s) raises an error _write does not catch
SSLWriteRaises ==
    /\ pc = "sslwrite"
    /\ wrote' = "error"
    /\ pc' = "idle"
    /\ caller' = "none"
    /\ \E e \in SSLWriteErrors : outcome' = Raised("_write", e)
    /\ UNCHANGED << config, connected, sock, _quick_recv, _read_buffer, readLocals,
                    frameLocals, peer, readHistory, was_connected, wcalls,
                    options, scope, endpoint, candidates, unsent, arg, accepted >>

\* an SSLTransport after a successful connect()
InitWrite ==
    /\ Construct("ssl", FALSE)
    /\ sock = _setup_transport("ssl", [at |-> "none", exc |-> NoExc]).sock
    /\ _quick_recv = sock
    /\ wire = << >>
    /\ pending = << >>
    /\ nsent = 0
    /\ expect = << >>
    /\ Quiet

NextWrite ==
    \/ SSLWrite
    \/ SSLWriteSome
    \/ SSLWriteNone
    \/ SSLWriteRaises

SpecWrite == InitWrite /\ [][NextWrite]_vars

(* ----------------------- several frames on the wire --------------------- *)

\* the well-formed frames of Frames
GoodFrames == {f \in Frames : f.trailer = 206}

\* the sequences of one to MaxFrames well-formed frames
FrameSeqs == UNION {[1..i -> GoodFrames] : i \in 1..MaxFrames}

\* a transport after a successful connect(), its buffer empty; the peer has
\* sent several frames back to back, so that recv can return bytes of the next
\* frame whenever it is asked for them
InitStream ==
    /\ \E k \in {"tcp", "ssl"} :
          /\ Construct(k, FALSE)
          /\ sock = _setup_transport(k, [at |-> "none", exc |-> NoExc]).sock
          /\ _quick_recv = sock
    /\ \E fs \in FrameSeqs :
          /\ wire = EncodeAll(fs)
          /\ pending = fs
          /\ nsent = Len(fs)
    /\ expect = wire
    /\ Quiet

NextStream ==
    \/ ReadFrame
    \/ RecvData
    \/ RecvZero
    \/ RecvRaise
    \/ ReadFrameHeader
    \/ ReadFramePayload
    \/ ReadFrameTrailer
    \/ ReadFrameExcept

SpecStream == InitStream /\ [][NextStream]_vars

(* ------------------------------ specification --------------------------- *)

Next ==
    \/ Connect
    \/ ReadFrame
    \/ RecvData
    \/ RecvZero
    \/ RecvRaise
    \/ ReadFrameHeader
    \/ ReadFramePayload
    \/ ReadFrameTrailer
    \/ ReadFrameExcept
    \/ PeerSend
    \/ Write
    \/ WriteDone
    \/ WriteRaise
    \/ Close

Spec == Init /\ [][Next]_vars

(* ------------------------- the stream and the buffers ------------------- *)

\* the bytes recv has returned that no operation has yet handed to its caller,
\* in the order the code holds them
Held ==
    IF pc = "recv" THEN read_frame_buffer \o rbuf
    ELSE IF pc = "ret" THEN read_frame_buffer \o ret \o _read_buffer
    ELSE IF pc = "exc" THEN read_frame_buffer \o _read_buffer
    ELSE _read_buffer

\* what the transport holds and what is still on the wire are together exactly
\* the frames the peer sent and read_frame has not yet finished, byte for byte
Aligned == Held \o wire = EncodeAll(pending)

WellFormed == \A i \in 1..Len(pending) : pending[i].trailer = 206

FrameOf(f) == << f.type, f.channel, f.payload >>

\* a step that ends read_frame with a frame
ReturnsFrame ==
    /\ pc = "ret"
    /\ caller = "read_frame"
    /\ stage = "trailer"
    /\ pc' = "idle"
    /\ outcome'.res = "return"

\* the connection is neither closed nor opened in the step and the peer stays
SameConnection == sock' = sock /\ peer_open' = peer_open

(* -------------------------------- claims -------------------------------- *)

\* C1: a _read(n) that starts with an empty retained buffer returns exactly the
\* next n bytes of the peer's stream, in order, however recv splits them, and
\* leaves the retained buffer empty; _read(0) returns the empty sequence
\* without any recv call.  Both classes' _read.
C1_ExactRead ==
    (pc = "ret" /\ caller = "_read" /\ start_empty) =>
        /\ Len(ret) = n
        /\ ret = Take(expect, n)
        /\ _read_buffer = EMPTY_BUFFER
        /\ (n = 0 => recvd = "none" /\ ret = << >>)

C1_Witness ==
    /\ pc = "ret"
    /\ caller = "_read"
    /\ start_empty
    /\ n = 3
    /\ ret = << 1, 2, 1 >>
    /\ recvd = "data"
    /\ wire = << >>

\* C2: in a stream of well-formed frames, a step that is a call, a delivery of
\* bytes, an ordinary socket timeout or its handling keeps every received byte
\* in place (the held bytes followed by the wire stay the unread frames), and a
\* read_frame that returns then returns the oldest unread frame: after a timeout
\* nothing is lost, duplicated or reordered.
C2_TimeoutsLoseNothing ==
    [][ ( /\ Aligned
          /\ WellFormed
          /\ SameConnection
          /\ pc # "write" /\ pc' # "write"
          /\ recvd' = "retry" => recvd = "retry"
          /\ pc = "exc" => exc = SocketTimeout
          /\ pc' = "exc" => exc' = SocketTimeout )
        => ( /\ Aligned'
             /\ ReturnsFrame =>
                   /\ pending # << >>
                   /\ outcome'.val = FrameOf(Head(pending)) ) ]_vars

C2_Witness ==
    /\ pc = "idle"
    /\ outcome = Raised("read_frame", SocketTimeout)
    /\ Len(_read_buffer) = 8
    /\ wire = << 206 >>
    /\ Aligned
    /\ WellFormed

\* C3: when read_frame ends with a timeout the transport is still connected;
\* when it ends with an I/O error that is no timeout and whose errno is not in
\* the transient set, the transport is marked disconnected.
C3_TimeoutKeepsConnected ==
    (pc = "idle" /\ outcome.op = "read_frame" /\ outcome.res = "raise") =>
        /\ outcome.exc.cls = "timeout" => (connected /\ was_connected)
        /\ ( /\ outcome.exc.cls \in {"error", "IOError", "SSLError"}
             /\ outcome.exc.errno \notin _UNAVAIL ) => ~connected

C3_Witness ==
    /\ pc = "idle"
    /\ outcome = Raised("read_frame", SocketError("ECONNRESET"))
    /\ Len(_read_buffer) = 1
    /\ ~connected
    /\ was_connected

\* C4: an SSLError whose message says 'timed out', raised by recv inside
\* read_frame, is handled like an ordinary timeout: it reaches the caller as a
\* timeout, connected is unchanged, and the frame bytes already consumed stay
\* held, so that the next read_frame returns that same frame.
C4_SSLTimeoutLikeTimeout ==
    [][ ( /\ pc = "exc" /\ caller = "read_frame" /\ exc = SSLTimedOut
          /\ pc' = "idle"
          /\ Aligned )
        => ( /\ outcome'.exc.cls = "timeout"
             /\ connected' = connected
             /\ Aligned' ) ]_vars

\* C5: when the trailer byte read is not 0xCE, read_frame raises UnexpectedFrame
\* carrying that byte; the 7 header bytes, the declared payload and the trailer
\* are consumed, none stays in the retained buffer, the next read starts after
\* the trailer, and connected is unchanged.
C5_BadTrailer ==
    [][ ( /\ pc = "ret" /\ caller = "read_frame" /\ stage = "trailer"
          /\ pc' = "idle"
          /\ ret # << 206 >> )
        => ( /\ outcome' = Raised("read_frame", UnexpectedFrame(ret[1]))
             /\ Len(read_frame_buffer) = 7 + frame_header.size
             /\ Len(ret) = 1
             /\ _read_buffer' = EMPTY_BUFFER
             /\ connected' = connected
             /\ Aligned =>
                   /\ Aligned'
                   /\ pending # << >>
                   /\ ret[1] = Head(pending).trailer ) ]_vars

C5_Witness ==
    /\ pc = "idle"
    /\ outcome = Raised("read_frame", UnexpectedFrame(0))
    /\ _read_buffer = EMPTY_BUFFER
    /\ connected
    /\ nsent = 1
    /\ wire = << >>

\* C6: a recv that returns no byte while _read holds fewer than n bytes makes
\* _read raise the connection-closed error; _read never returns a short result;
\* and read_frame then hands the error on with the transport marked disconnected.
C6_ZeroMeansClosed ==
    /\ recvd = "zero" => (pc = "exc" /\ exc = SocketClosed)
    /\ pc = "ret" => Len(ret) = n
    /\ (pc = "idle" /\ outcome = Raised("read_frame", SocketClosed)) => ~connected

C6_Witness ==
    /\ pc = "exc"
    /\ recvd = "zero"
    /\ exc = SocketClosed
    /\ Len(_read_buffer) = 3
    /\ n = 7

\* a step in which _read absorbs a transient error and calls recv again
Retries == pc = "recv" /\ recvd' = "retry" /\ recvd # "retry"

\* C7: with raise_on_initial_eintr false, a transient error (EINTR, EAGAIN) of
\* recv never reaches the caller; the retry leaves the accumulated bytes, the
\* retained buffer and the count asked for as they were; and through any number
\* of retries and deliveries the bytes stay in place, so that the read_frame
\* that returns then returns the oldest unread frame of the stream.
C7_TransientInvisible ==
    [][ ~raise_on_initial_eintr =>
          /\ exc'.errno \notin {"EINTR", "EAGAIN"}
          /\ outcome'.op = "read_frame" =>
                outcome'.exc.errno \notin {"EINTR", "EAGAIN"}
          /\ Retries =>
                /\ pc' = "recv"
                /\ rbuf' = rbuf
                /\ n' = n
                /\ RecvArg' = RecvArg
                /\ UNCHANGED << _read_buffer, read_frame_buffer, wire, connected >>
          /\ ( /\ Aligned
               /\ WellFormed
               /\ SameConnection
               /\ pc # "write" /\ pc' # "write"
               /\ pc # "exc" /\ pc' # "exc" )
             => ( /\ Aligned'
                  /\ ReturnsFrame =>
                        /\ pending # << >>
                        /\ outcome'.val = FrameOf(Head(pending)) ) ]_vars

C7_Witness ==
    /\ ~raise_on_initial_eintr
    /\ pc = "recv"
    /\ recvd = "retry"
    /\ stage = "payload"
    /\ initial = FALSE
    /\ rbuf = << >>
    /\ n = 1
    /\ Aligned

\* C8: write calls _write once and never again; a timeout or a transient error
\* of _write propagates with connected unchanged, any other I/O error
\* propagates with connected false, and a success returns nothing and leaves
\* connected unchanged.
C8_WriteOnce ==
    /\ wcalls <= 1
    /\ (pc = "idle" /\ outcome.op = "write") =>
          /\ wcalls = 1
          /\ outcome.res = "return" =>
                (outcome.val = << >> /\ connected = was_connected)
          /\ ( /\ outcome.res = "raise"
               /\ \/ outcome.exc.cls = "timeout"
                  \/ outcome.exc.errno \in _UNAVAIL ) => connected = was_connected
          /\ ( /\ outcome.res = "raise"
               /\ outcome.exc.cls # "timeout"
               /\ outcome.exc.errno \notin _UNAVAIL ) => ~connected

C8_Witness ==
    /\ pc = "idle"
    /\ outcome = Raised("write", SocketError("EPIPE"))
    /\ was_connected
    /\ ~connected
    /\ wcalls = 1

\* C9: every close(), in whatever state it is called and whatever the shutdown
\* hook and the socket's shutdown answer, ends with connected false and no
\* socket held.
C9_CloseAlwaysReleases ==
    (pc = "idle" /\ outcome.op = "close") => (~connected /\ sock = None)

\* C10: of two close() calls in succession the second does not raise, finds no
\* socket held, calls neither the hook nor shutdown/close and changes nothing,
\* and connected is false after each of the two.
C10_CloseTwice ==
    [][ (outcome.op = "close" /\ Close) =>
          /\ ~connected
          /\ ~connected'
          /\ sock = None
          /\ outcome' = [op |-> "close", res |-> "return", exc |-> NoExc,
                         val |-> << >>]
          /\ UNCHANGED << sock, _quick_recv, _read_buffer, wire, pending >> ]_vars

\* C11: read_frame applied to the wire bytes of a frame (type, channel, payload),
\* that is type(1) + channel(2, big-endian) + length(4, big-endian) + payload +
\* 0xCE, returns exactly (type, channel, payload), and the bytes it has consumed
\* are exactly the 7 + length + 1 bytes of that frame: what follows them on the
\* wire is still unread.
C11_FrameRoundTrip ==
    [][ ( /\ pc = "ret" /\ caller = "read_frame" /\ stage = "trailer"
          /\ pc' = "idle"
          /\ pending # << >> )
        => ( /\ outcome' = Returned("read_frame", FrameOf(Head(pending)))
             /\ read_frame_buffer \o ret = Encode(Head(pending))
             /\ Len(read_frame_buffer \o ret) = 7 + Len(Head(pending).payload) + 1
             /\ read_frame_buffer \o ret \o _read_buffer' \o wire' = expect ) ]_vars

C11_Witness ==
    /\ pc = "idle"
    /\ outcome = Returned("read_frame", << 255, 65535, << 0 >> >>)
    /\ _read_buffer = EMPTY_BUFFER
    /\ wire = << 8 >>
    /\ Len(expect) = 10

\* C12: with socket settings that name some option but not TCP_NODELAY,
\* _set_socket_options calls setsockopt with TCP_NODELAY = 1 whatever the
\* socket's TCP_NODELAY is; every other option of the platform that the settings
\* do not name is set again to the value it has, and every option the settings
\* name is set to the value they give.
C12_NoDelayGuaranteed ==
    [][ ( /\ setsockopt_calls = {} /\ setsockopt_calls' # {}
          /\ DOMAIN socket_settings # {}
          /\ "TCP_NODELAY" \notin DOMAIN socket_settings )
        => ( /\ << "TCP_NODELAY", 1 >> \in setsockopt_calls'
             /\ sockopts'["TCP_NODELAY"] = 1
             /\ \A o \in (TCP_OPTS \ DOMAIN socket_settings) \ {"TCP_NODELAY"} :
                   << o, sockopts[o] >> \in setsockopt_calls'
             /\ \A o \in DOMAIN socket_settings :
                   << o, socket_settings[o] >> \in setsockopt_calls' ) ]_vars

\* C13: whatever timeout p the socket had and whatever timeout t is asked for,
\* once the having_timeout(t) scope has been left, by completion, by an error
\* or by a timeout raised in the body, the socket's timeout is p again; while
\* the body runs with t not None the socket's timeout is t; with t None no
\* settimeout call is made at all.
C13_TimeoutRestored ==
    /\ (pc = "idle" /\ outcome.op = "having_timeout") => sock_timeout = before
    /\ (pc = "body" /\ timeout # NoNumber) => sock_timeout = timeout
    /\ (outcome.op = "having_timeout" \/ pc = "body") =>
          (timeout = NoNumber => (settimeouts = 0 /\ sock_timeout = before))

C13_Witness ==
    /\ pc = "idle"
    /\ outcome = Raised("having_timeout", SocketTimeout)
    /\ timeout = Some(2)
    /\ before = Some(1)
    /\ sock_timeout = Some(1)
    /\ settimeouts = 2

\* C14: when connect() fails with an OS-level error whose errno is not in the
\* transient set, be it the error of the last address candidate, of the
\* socket's configuration, of the TLS wrap or handshake, or of the write of the
\* protocol header, the transport is marked disconnected when the error reaches
\* the caller.
C14_ConnectFailureDisconnects ==
    ( /\ pc = "idle"
      /\ outcome.op = "connect"
      /\ outcome.res = "raise"
      /\ outcome.exc.cls \in {"error", "IOError", "SSLError"}
      /\ outcome.exc.errno \notin _UNAVAIL ) => ~connected

\* a non-empty string of the characters an IPv6 literal is written with
IsLiteral(str) == str # << >> /\ \A i \in 1..Len(str) : str[i] \in LiteralChars

\* str begins with a bracketed literal
BeginsWithLiteral(str) ==
    \E i \in 3..Len(str) :
        str[1] = "[" /\ str[i] = "]" /\ IsLiteral(SubSeq(str, 2, i - 1))

FirstOk ==
    IF \E i \in 1..Len(resolved) : resolved[i] = "ok"
    THEN CHOOSE i \in 1..Len(resolved) :
            resolved[i] = "ok" /\ \A j \in 1..(i - 1) : resolved[j] # "ok"
    ELSE Len(resolved)

\* C16: _connect tries the candidates in the order getaddrinfo returned them, up
\* to the first that connects and no further; a socket is opened for a
\* candidate only after the socket of every earlier candidate has been closed;
\* when the last candidate fails its error is the one raised and no socket is
\* held; an error is raised by _connect only then.
C16_CandidatesInOrder ==
    (pc = "idle" /\ outcome.op = "connect" /\ resolved # << >>) =>
      /\ {trail[p][2] : p \in 1..Len(trail)} = 1..FirstOk
      /\ \A p, q \in 1..Len(trail) :
            (p < q /\ trail[p][1] = "socket" /\ trail[q][1] = "socket") =>
               /\ trail[p][2] < trail[q][2]
               /\ \E r \in p..q : trail[r] = << "close", trail[p][2] >>
      /\ resolved[FirstOk] # "ok" =>
            /\ sock = None
            /\ outcome.res = "raise"
            /\ outcome.exc.errno = resolved[Len(resolved)]
      /\ resolved[FirstOk] = "ok" =>
            /\ outcome.exc.cls # "AttributeError"
            /\ outcome.exc.errno \notin CandidateAnswers

\* C17: with raise_on_initial_eintr true, no error of recv is retried during
\* the header read; an EINTR or EAGAIN reaches the caller of read_frame only
\* from the header read with the flag true, as it was raised, with connected
\* unchanged and the header bytes already received kept in the retained buffer,
\* and through such errors the bytes stay in place, so that the read_frame that
\* returns then returns the oldest unread frame; during the payload and trailer
\* reads, whatever the flag, EINTR and EAGAIN are never raised by _read.
C17_InitialEintr ==
    [][ /\ (pc = "recv" /\ initial /\ raise_on_initial_eintr) => recvd' # "retry"
        /\ ( /\ pc = "exc" /\ caller = "read_frame" /\ pc' = "idle"
             /\ exc.errno \in {"EINTR", "EAGAIN"} )
           => ( /\ stage = "header"
                /\ raise_on_initial_eintr
                /\ outcome' = Raised("read_frame", exc)
                /\ connected' = connected
                /\ _read_buffer' = _read_buffer
                /\ read_frame_buffer = EMPTY_BUFFER )
        /\ (pc' = "exc" /\ caller' = "read_frame" /\ ~initial') =>
              exc'.errno \notin {"EINTR", "EAGAIN"}
        /\ ( /\ Aligned
             /\ WellFormed
             /\ SameConnection
             /\ pc # "write" /\ pc' # "write"
             /\ pc = "exc" => exc.errno \in {"EINTR", "EAGAIN"}
             /\ pc' = "exc" => exc'.errno \in {"EINTR", "EAGAIN"} )
           => ( /\ Aligned'
                /\ ReturnsFrame =>
                      /\ pending # << >>
                      /\ outcome'.val = FrameOf(Head(pending)) ) ]_vars

C17_Witness ==
    /\ raise_on_initial_eintr
    /\ pc = "idle"
    /\ outcome = Raised("read_frame", SocketError("EINTR"))
    /\ connected
    /\ Len(_read_buffer) = 3
    /\ Aligned
    /\ WellFormed

\* C18: at every point of SSLTransport._write the bytes sock.write has taken,
\* followed by the rest still to write, are the string _write was called with,
\* and when _write returns the bytes taken are that string, each once and in
\* order; a sock.write that takes no byte, or raises ValueError or
\* AttributeError, ends _write at once with IOError('Socket closed'); and every
\* turn of the loop that does not end _write leaves a shorter rest.
C18_WritesAll ==
    [][ /\ accepted' \o unsent' = arg'
        /\ (pc' = "idle" /\ outcome' = Returned("_write", << >>)) =>
              (accepted' = arg' /\ unsent' = << >>)
        /\ (pc = "sslwrite" /\ wrote' \in {"zero", "ValueError", "AttributeError"}) =>
              /\ pc' = "idle"
              /\ outcome' = Raised("_write", SocketClosed)
              /\ accepted' = accepted
        /\ pc' = "sslwrite" => unsent' # << >>
        /\ (pc = "sslwrite" /\ pc' = "sslwrite") => Len(unsent') < Len(unsent)
      ]_vars

C18_Witness ==
    /\ pc = "idle"
    /\ outcome = Returned("_write", << >>)
    /\ arg = << 1, 2, 2 >>
    /\ accepted = << 1, 2, 2 >>
    /\ wrote = "some"

\* C19: _read never asks recv for more than n minus the bytes it already holds;
\* with frames back to back on the wire, while the bytes the transport holds
\* are those of the stream, it holds none beyond the end of the frame it is
\* reading; and after read_frame has returned a frame the retained buffer is
\* empty.
C19_NoOverRead ==
    /\ pc = "recv" => (RecvArg >= 1 /\ RecvArg <= n - Len(rbuf))
    /\ (Aligned /\ pending # << >>) => Len(Held) <= Len(Encode(Head(pending)))
    /\ (pc = "idle" /\ outcome.op = "read_frame" /\ outcome.res = "return") =>
          _read_buffer = EMPTY_BUFFER

C19_Witness ==
    /\ pc = "idle"
    /\ outcome = Raised("read_frame", SocketTimeout)
    /\ Len(_read_buffer) = 8
    /\ Len(pending) = 2
    /\ Len(wire) = 10
    /\ nsent = 2
    /\ Aligned

\* C20: no step of any operation makes connected true: it is true by
\* construction alone, and once connect, read_frame, write or close has made
\* it false it stays false, through a later successful connect() too.
C20_ConnectedOnlyFalls ==
    [][connected' => connected]_vars

C20_Witness ==
    /\ pc = "idle"
    /\ outcome = Returned("connect", << >>)
    /\ sock # None
    /\ _quick_recv = sock
    /\ ~was_connected
    /\ ~connected

====
